---- MODULE Spec2Model ----
(***************************************************************************)
(* Binary Pulse Encoder (src/app.js): a name is converted to its binary    *)
(* representation and drawn on a canvas as a line-encoding waveform         *)
(* (NRZ-L, RZ, Manchester, Bipolar AMI, CMI).                               *)
(*                                                                          *)
(* Strings are sequences: a text is a sequence of UTF-16 code units         *)
(* (numbers), a binary string a sequence of one-character strings.          *)
(* The zoom factor is kept in percent (1 is 100, the 0.25 step is 25), so   *)
(* that every pixel coordinate of the signal path is an integer, exactly    *)
(* as the doubles of the program are.                                       *)
(***************************************************************************)
EXTENDS Integers, Sequences, FiniteSets

VARIABLES
    currentBinary,  \* let currentBinary (line 28)
    currentZoom,    \* let currentZoom (line 29), in percent
    encoding,       \* the checked radio input[name="encoding"]
    toast,          \* text of the .toast element, "" when there is none
    name,           \* const name of the convert handler (line 520)
    pc,             \* "idle", or the position inside drawWaveform
    i,              \* loop index of drawWaveform (line 299)
    lastY,          \* let lastY (line 295)
    amiPolarity,    \* let amiPolarity (line 296)
    cmiPolarity,    \* let cmiPolarity (line 297)
    path,           \* current path of the canvas context: moveTo/lineTo calls
    stroked,        \* the signal on the canvas: the path stroked at line 334
    copyPending     \* clipboard.writeText promises not settled yet (line 554)

vars == <<currentBinary, currentZoom, encoding, toast, name, pc, i, lastY,
          amiPolarity, cmiPolarity, path, stroked, copyPending>>

----------------------------------------------------------------------------
(* Bounds of the model *)

\* longest text typed into the name input
MaxText == 2
\* longest well-formed bit string handed directly to drawWaveform
MaxBits == 7
\* longest bit string holding a character other than '0' and '1'
MaxBad == 2
\* most clipboard writes in flight at a time
MaxCopies == 1

----------------------------------------------------------------------------
(* Program constants *)

MIN_ZOOM == 50
MAX_ZOOM == 200
ZOOM_STEP == 25
padding == 80
topPadding == 60

Encodings == {"nrz", "rz", "manchester", "ami", "cmi"}

\* ' ' (32), 'A' (65, an even number of 1-bits) and 'C' (67, an odd number)
Chars == {32, 65, 67}

\* code units String.prototype.trim removes (those below 256)
WhiteSpace == {9, 10, 11, 12, 13, 32, 160}

RECURSIVE SeqsUpTo(_, _)
SeqsUpTo(S, n) ==
    IF n = 0 THEN {<<>>}
    ELSE LET shorter == SeqsUpTo(S, n - 1)
         IN shorter \cup {Append(s, c) : s \in {t \in shorter : Len(t) = n - 1}, c \in S}

Texts == SeqsUpTo(Chars, MaxText)

Zooms == {z \in MIN_ZOOM..MAX_ZOOM : (z - MIN_ZOOM) % ZOOM_STEP = 0}

\* bit strings given to drawWaveform when it is exercised on its own
GenInputs ==
    SeqsUpTo({"0", "1"}, MaxBits)
    \cup {b \in SeqsUpTo({"0", "1", "2"}, MaxBad) : \E k \in 1..Len(b) : b[k] = "2"}

----------------------------------------------------------------------------
(* Utility functions *)

RECURSIVE toString2(_)
toString2(n) ==
    LET d == IF n % 2 = 1 THEN "1" ELSE "0"
    IN IF n < 2 THEN <<d>> ELSE Append(toString2(n \div 2), d)

padStart(s, targetLength, padChar) ==
    IF Len(s) >= targetLength THEN s
    ELSE [k \in 1..(targetLength - Len(s)) |-> padChar] \o s

charToBinary_nopad(char) == toString2(char)

charToBinary(char) == padStart(toString2(char), 8, "0")

RECURSIVE stringToBinary(_)
stringToBinary(str) ==
    IF str = <<>> THEN <<>>
    ELSE charToBinary(Head(str)) \o stringToBinary(Tail(str))

RECURSIVE trimStart(_)
trimStart(s) ==
    IF s # <<>> /\ Head(s) \in WhiteSpace THEN trimStart(Tail(s)) ELSE s

RECURSIVE trimEnd(_)
trimEnd(s) ==
    IF s # <<>> /\ s[Len(s)] \in WhiteSpace THEN trimEnd(SubSeq(s, 1, Len(s) - 1)) ELSE s

trim(s) == trimEnd(trimStart(s))

----------------------------------------------------------------------------
(* Canvas geometry of drawWaveform *)

bitWidth(zoom) == (40 * zoom) \div 100
cellSize(zoom) == (20 * zoom) \div 100
voltageHigh(zoom) == topPadding + cellSize(zoom)
voltageZero(zoom) == topPadding + cellSize(zoom) * 3
voltageLow(zoom) == topPadding + cellSize(zoom) * 5

\* ctx.moveTo / ctx.lineTo on the current path
moveTo(ctx, x, y) == Append(ctx, [op |-> "moveTo", x |-> x, y |-> y])
lineTo(ctx, x, y) == Append(ctx, [op |-> "lineTo", x |-> x, y |-> y])

----------------------------------------------------------------------------
(* Individual encoding drawing functions: each returns the path after the  *)
(* calls it makes on ctx (drawAMI and drawCMI with their result object).    *)

\* drawNRZ lifting the pen at a level change instead of drawing the step
drawNRZ_penUp(ctx, x, width, bit, high, low, lastYArg, index) ==
    LET y == IF bit = "1" THEN high ELSE low
        c1 == IF index = 0 \/ lastYArg # y THEN moveTo(ctx, x, y) ELSE ctx
    IN lineTo(c1, x + width, y)

\* drawNRZ as polar NRZ-L: a 0-bit on a rail two cells below the one passed in
drawNRZ_polar(ctx, x, width, bit, high, low, lastYArg, index) ==
    LET y == IF bit = "1" THEN high ELSE low + (low - high)
        c1 == IF index = 0 THEN moveTo(ctx, x, y)
              ELSE IF lastYArg # y THEN lineTo(lineTo(ctx, x, lastYArg), x, y)
              ELSE ctx
    IN lineTo(c1, x + width, y)

drawNRZ(ctx, x, width, bit, high, low, lastYArg, index) ==
    LET y == IF bit = "1" THEN high ELSE low
        c1 == IF index = 0 THEN moveTo(ctx, x, y)
              ELSE IF lastYArg # y THEN lineTo(lineTo(ctx, x, lastYArg), x, y)
              ELSE ctx
    IN lineTo(c1, x + width, y)

\* drawRZ as unipolar RZ: a 0-bit stays on the zero rail
drawRZ_unipolar(ctx, x, width, bit, high, zero, low, lastYArg, index) ==
    IF bit = "1" THEN
        LET c1 == IF index = 0 THEN moveTo(ctx, x, high)
                  ELSE LET c0 == lineTo(ctx, x, lastYArg)
                       IN IF lastYArg # high THEN lineTo(c0, x, high) ELSE c0
            c2 == lineTo(c1, x + width \div 2, high)
            c3 == lineTo(c2, x + width \div 2, zero)
        IN lineTo(c3, x + width, zero)
    ELSE
        LET c1 == IF index = 0 THEN moveTo(ctx, x, zero)
                  ELSE LET c0 == lineTo(ctx, x, lastYArg)
                       IN IF lastYArg # zero THEN lineTo(c0, x, zero) ELSE c0
            c2 == lineTo(c1, x + width \div 2, zero)
            c3 == lineTo(c2, x + width \div 2, zero)
        IN lineTo(c3, x + width, zero)

drawRZ(ctx, x, width, bit, high, zero, low, lastYArg, index) ==
    IF bit = "1" THEN
        LET c1 == IF index = 0 THEN moveTo(ctx, x, high)
                  ELSE LET c0 == lineTo(ctx, x, lastYArg)
                       IN IF lastYArg # high THEN lineTo(c0, x, high) ELSE c0
            c2 == lineTo(c1, x + width \div 2, high)
            c3 == lineTo(c2, x + width \div 2, zero)
        IN lineTo(c3, x + width, zero)
    ELSE
        LET c1 == IF index = 0 THEN moveTo(ctx, x, low)
                  ELSE LET c0 == lineTo(ctx, x, lastYArg)
                       IN IF lastYArg # low THEN lineTo(c0, x, low) ELSE c0
            c2 == lineTo(c1, x + width \div 2, low)
            c3 == lineTo(c2, x + width \div 2, zero)
        IN lineTo(c3, x + width, zero)

\* drawManchester with the opposite convention (1 = high to low)
drawManchester_inverted(ctx, x, width, bit, high, low, lastYArg, index) ==
    IF bit = "0" THEN
        LET c1 == IF index = 0 THEN moveTo(ctx, x, low)
                  ELSE IF lastYArg # low THEN lineTo(lineTo(ctx, x, lastYArg), x, low)
                  ELSE ctx
            c2 == lineTo(c1, x + width \div 2, low)
            c3 == lineTo(c2, x + width \div 2, high)
        IN lineTo(c3, x + width, high)
    ELSE
        LET c1 == IF index = 0 THEN moveTo(ctx, x, high)
                  ELSE IF lastYArg # high THEN lineTo(lineTo(ctx, x, lastYArg), x, high)
                  ELSE ctx
            c2 == lineTo(c1, x + width \div 2, high)
            c3 == lineTo(c2, x + width \div 2, low)
        IN lineTo(c3, x + width, low)

\* drawManchester with the middle of the bit taken at x + width * 2
drawManchester_farMiddle(ctx, x, width, bit, high, low, lastYArg, index) ==
    IF bit = "1" THEN
        LET c1 == IF index = 0 THEN moveTo(ctx, x, low)
                  ELSE IF lastYArg # low THEN lineTo(lineTo(ctx, x, lastYArg), x, low)
                  ELSE ctx
            c2 == lineTo(c1, x + width * 2, low)
            c3 == lineTo(c2, x + width * 2, high)
        IN lineTo(c3, x + width, high)
    ELSE
        LET c1 == IF index = 0 THEN moveTo(ctx, x, high)
                  ELSE IF lastYArg # high THEN lineTo(lineTo(ctx, x, lastYArg), x, high)
                  ELSE ctx
            c2 == lineTo(c1, x + width * 2, high)
            c3 == lineTo(c2, x + width * 2, low)
        IN lineTo(c3, x + width, low)

drawManchester(ctx, x, width, bit, high, low, lastYArg, index) ==
    IF bit = "1" THEN
        LET c1 == IF index = 0 THEN moveTo(ctx, x, low)
                  ELSE IF lastYArg # low THEN lineTo(lineTo(ctx, x, lastYArg), x, low)
                  ELSE ctx
            c2 == lineTo(c1, x + width \div 2, low)
            c3 == lineTo(c2, x + width \div 2, high)
        IN lineTo(c3, x + width, high)
    ELSE
        LET c1 == IF index = 0 THEN moveTo(ctx, x, high)
                  ELSE IF lastYArg # high THEN lineTo(lineTo(ctx, x, lastYArg), x, high)
                  ELSE ctx
            c2 == lineTo(c1, x + width \div 2, high)
            c3 == lineTo(c2, x + width \div 2, low)
        IN lineTo(c3, x + width, low)

\* drawAMI flipping the polarity on every bit, 0-bits included
drawAMI_flipEveryBit(ctx, x, width, bit, high, zero, low, lastYArg, index, polarity) ==
    LET newY == IF bit = "0" THEN zero
                ELSE IF polarity = 1 THEN high ELSE low
        c1 == IF index = 0 THEN moveTo(ctx, x, newY)
              ELSE LET c0 == lineTo(ctx, x, lastYArg)
                   IN IF lastYArg # newY THEN lineTo(c0, x, newY) ELSE c0
    IN [path |-> lineTo(c1, x + width, newY), lastY |-> newY, polarity |-> -polarity]

drawAMI(ctx, x, width, bit, high, zero, low, lastYArg, index, polarity) ==
    LET newY == IF bit = "0" THEN zero
                ELSE IF polarity = 1 THEN high ELSE low
        newPolarity == IF bit = "0" THEN polarity ELSE -polarity
        c1 == IF index = 0 THEN moveTo(ctx, x, newY)
              ELSE LET c0 == lineTo(ctx, x, lastYArg)
                   IN IF lastYArg # newY THEN lineTo(c0, x, newY) ELSE c0
    IN [path |-> lineTo(c1, x + width, newY), lastY |-> newY, polarity |-> newPolarity]

\* drawCMI drawing its 1-bits on the +V and -V rails of the caller's canvas
\* (the low rail taken two cells below the one passed in)
drawCMI_bipolar(ctx, x, width, bit, high, low, lastYArg, index, polarity) ==
    IF bit = "1" THEN
        LET y == IF polarity = 1 THEN high ELSE low + (low - high)
            c1 == IF index = 0 THEN moveTo(ctx, x, y)
                  ELSE LET c0 == lineTo(ctx, x, lastYArg)
                       IN IF lastYArg # y THEN lineTo(c0, x, y) ELSE c0
        IN [path |-> lineTo(c1, x + width, y), lastY |-> y, polarity |-> -polarity]
    ELSE
        LET c1 == IF index = 0 THEN moveTo(ctx, x, low)
                  ELSE LET c0 == lineTo(ctx, x, lastYArg)
                       IN IF lastYArg # low THEN lineTo(c0, x, low) ELSE c0
            c2 == lineTo(c1, x + width \div 2, low)
            c3 == lineTo(c2, x + width \div 2, high)
        IN [path |-> lineTo(c3, x + width, high), lastY |-> high, polarity |-> polarity]

drawCMI(ctx, x, width, bit, high, low, lastYArg, index, polarity) ==
    IF bit = "1" THEN
        LET y == IF polarity = 1 THEN high ELSE low
            c1 == IF index = 0 THEN moveTo(ctx, x, y)
                  ELSE LET c0 == lineTo(ctx, x, lastYArg)
                       IN IF lastYArg # y THEN lineTo(c0, x, y) ELSE c0
        IN [path |-> lineTo(c1, x + width, y), lastY |-> y, polarity |-> -polarity]
    ELSE
        LET c1 == IF index = 0 THEN moveTo(ctx, x, low)
                  ELSE LET c0 == lineTo(ctx, x, lastYArg)
                       IN IF lastYArg # low THEN lineTo(c0, x, low) ELSE c0
            c2 == lineTo(c1, x + width \div 2, low)
            c3 == lineTo(c2, x + width \div 2, high)
        IN [path |-> lineTo(c3, x + width, high), lastY |-> high, polarity |-> polarity]

----------------------------------------------------------------------------
(* drawWaveform(binary, encoding): every call site passes currentBinary    *)
(* and getSelectedEncoding(), and a handler runs to its end before another  *)
(* starts, so the two parameters are read from the variables they alias.    *)

\* The locals of drawWaveform as one record
Locals == [i |-> i, lastY |-> lastY, amiPolarity |-> amiPolarity,
           cmiPolarity |-> cmiPolarity, path |-> path]

\* lines 293-297: ctx.beginPath() and the three let declarations
freshLocals(zoom) ==
    [i |-> 0, lastY |-> voltageZero(zoom), amiPolarity |-> 1, cmiPolarity |-> -1,
     path |-> <<>>]

\* the loop body remembering, for Manchester, the level a bit starts at
\* instead of the level it ends at
loopBody_startLevel(l, binary, enc, zoom) ==
    LET x == padding + l.i * bitWidth(zoom)
        bit == binary[l.i + 1]
        w == bitWidth(zoom)
        high == voltageHigh(zoom)
        zero == voltageZero(zoom)
        low == voltageLow(zoom)
        next == [l EXCEPT !.i = l.i + 1]
    IN CASE enc = "nrz" ->
              [next EXCEPT !.path = drawNRZ(l.path, x, w, bit, high, zero, l.lastY, l.i),
                           !.lastY = IF bit = "1" THEN high ELSE zero]
         [] enc = "rz" ->
              [next EXCEPT !.path = drawRZ(l.path, x, w, bit, high, zero, low, l.lastY, l.i),
                           !.lastY = zero]
         [] enc = "manchester" ->
              [next EXCEPT !.path = drawManchester(l.path, x, w, bit, high, low, l.lastY, l.i),
                           !.lastY = IF bit = "1" THEN low ELSE high]
         [] enc = "ami" ->
              LET amiResult == drawAMI(l.path, x, w, bit, high, zero, low, l.lastY, l.i,
                                       l.amiPolarity)
              IN [next EXCEPT !.path = amiResult.path, !.lastY = amiResult.lastY,
                              !.amiPolarity = amiResult.polarity]
         [] enc = "cmi" ->
              LET cmiResult == drawCMI(l.path, x, w, bit, high, zero, l.lastY, l.i,
                                       l.cmiPolarity)
              IN [next EXCEPT !.path = cmiResult.path, !.lastY = cmiResult.lastY,
                              !.cmiPolarity = cmiResult.polarity]
         [] OTHER -> next

\* lines 299-332: one iteration of the loop, on the locals l
loopBody(l, binary, enc, zoom) ==
    LET x == padding + l.i * bitWidth(zoom)
        bit == binary[l.i + 1]
        w == bitWidth(zoom)
        high == voltageHigh(zoom)
        zero == voltageZero(zoom)
        low == voltageLow(zoom)
        next == [l EXCEPT !.i = l.i + 1]
    IN CASE enc = "nrz" ->
              [next EXCEPT !.path = drawNRZ(l.path, x, w, bit, high, zero, l.lastY, l.i),
                           !.lastY = IF bit = "1" THEN high ELSE zero]
         [] enc = "rz" ->
              [next EXCEPT !.path = drawRZ(l.path, x, w, bit, high, zero, low, l.lastY, l.i),
                           !.lastY = zero]
         [] enc = "manchester" ->
              [next EXCEPT !.path = drawManchester(l.path, x, w, bit, high, low, l.lastY, l.i),
                           !.lastY = IF bit = "1" THEN high ELSE low]
         [] enc = "ami" ->
              LET amiResult == drawAMI(l.path, x, w, bit, high, zero, low, l.lastY, l.i,
                                       l.amiPolarity)
              IN [next EXCEPT !.path = amiResult.path, !.lastY = amiResult.lastY,
                              !.amiPolarity = amiResult.polarity]
         [] enc = "cmi" ->
              LET cmiResult == drawCMI(l.path, x, w, bit, high, zero, l.lastY, l.i,
                                       l.cmiPolarity)
              IN [next EXCEPT !.path = cmiResult.path, !.lastY = cmiResult.lastY,
                              !.cmiPolarity = cmiResult.polarity]
         [] OTHER -> next

setLocals(l) ==
    /\ i' = l.i
    /\ lastY' = l.lastY
    /\ amiPolarity' = l.amiPolarity
    /\ cmiPolarity' = l.cmiPolarity
    /\ path' = l.path

\* entry of drawWaveform with the polarities kept from the call before, as
\* if they were declared next to currentBinary
drawWaveformBegin_keepPolarity(zoom) ==
    /\ pc' = "loop"
    /\ stroked' = <<>>
    /\ i' = 0
    /\ lastY' = voltageZero(zoom)
    /\ path' = <<>>
    /\ UNCHANGED <<amiPolarity, cmiPolarity>>

\* lines 179-297: entry of drawWaveform up to the loop, at zoom factor zoom:
\* the canvas is resized and repainted (lines 193-203), which wipes the
\* signal drawn before, and the signal path is begun
drawWaveformBegin(zoom) ==
    /\ pc' = "loop"
    /\ stroked' = <<>>
    /\ setLocals(freshLocals(zoom))

\* lines 299-332: the loop runs one more iteration
DrawIter ==
    /\ pc = "loop"
    /\ i < Len(currentBinary)
    /\ setLocals(loopBody(Locals, currentBinary, encoding, currentZoom))
    /\ UNCHANGED <<currentBinary, currentZoom, encoding, toast, name, pc, stroked,
                   copyPending>>

\* lines 341-347: the path of the bit separator at index k
separator(k, zoom) ==
    LET x == padding + k * bitWidth(zoom)
    IN lineTo(moveTo(<<>>, x, topPadding), x, voltageLow(zoom) + 20)

\* lines 334-350: the loop is over, the signal path is stroked, the bit
\* separators 0..binary.length are drawn, each as a path of its own (the last
\* one stays the current path), and drawWaveform returns
DrawEnd ==
    /\ pc = "loop"
    /\ i >= Len(currentBinary)
    /\ stroked' = path
    /\ path' = separator(Len(currentBinary), currentZoom)
    /\ pc' = "idle"
    /\ UNCHANGED <<currentBinary, currentZoom, encoding, toast, name, i, lastY,
                   amiPolarity, cmiPolarity, copyPending>>

----------------------------------------------------------------------------
(* Event handlers *)

\* showToast: the toast on screen, if any, is replaced
showToast(message) == toast' = message

\* setTimeout(() => toast.remove(), 2500)
ToastTimeout ==
    /\ pc = "idle"
    /\ toast # ""
    /\ toast' = ""
    /\ UNCHANGED <<currentBinary, currentZoom, encoding, name, pc, i, lastY,
                   amiPolarity, cmiPolarity, path, stroked, copyPending>>

\* convertBtn click, with value the text of the name input
ConvertClick(value) ==
    /\ pc = "idle"
    /\ name' = trim(value)
    /\ IF name' = <<>>
       THEN /\ showToast("Please enter a name first!")
            /\ UNCHANGED <<currentBinary, currentZoom, encoding, pc, i, lastY,
                           amiPolarity, cmiPolarity, path, stroked>>
       ELSE /\ currentBinary' = stringToBinary(name')
            /\ drawWaveformBegin(currentZoom)
            /\ UNCHANGED <<currentZoom, encoding, toast>>
    /\ UNCHANGED copyPending

\* change of the encoding radio to e
EncodingChange(e) ==
    /\ pc = "idle"
    /\ e # encoding
    /\ encoding' = e
    /\ IF currentBinary # <<>>
       THEN drawWaveformBegin(currentZoom)
       ELSE UNCHANGED <<pc, i, lastY, amiPolarity, cmiPolarity, path, stroked>>
    /\ UNCHANGED <<currentBinary, currentZoom, toast, name, copyPending>>

Min(a, b) == IF a < b THEN a ELSE b
Max(a, b) == IF a > b THEN a ELSE b

\* zoomInBtn click
ZoomIn ==
    /\ pc = "idle"
    /\ currentZoom < MAX_ZOOM
    /\ currentZoom' = Min(MAX_ZOOM, currentZoom + ZOOM_STEP)
    /\ IF currentBinary # <<>>
       THEN drawWaveformBegin(currentZoom')
       ELSE UNCHANGED <<pc, i, lastY, amiPolarity, cmiPolarity, path, stroked>>
    /\ UNCHANGED <<currentBinary, encoding, toast, name, copyPending>>

\* zoomOutBtn click
ZoomOut ==
    /\ pc = "idle"
    /\ currentZoom > MIN_ZOOM
    /\ currentZoom' = Max(MIN_ZOOM, currentZoom - ZOOM_STEP)
    /\ IF currentBinary # <<>>
       THEN drawWaveformBegin(currentZoom')
       ELSE UNCHANGED <<pc, i, lastY, amiPolarity, cmiPolarity, path, stroked>>
    /\ UNCHANGED <<currentBinary, encoding, toast, name, copyPending>>

\* copyBinaryBtn click: the clipboard write is started; its toast comes when
\* the promise is fulfilled
CopyClick ==
    /\ pc = "idle"
    /\ currentBinary # <<>>
    /\ copyPending < MaxCopies
    /\ copyPending' = copyPending + 1
    /\ UNCHANGED <<currentBinary, currentZoom, encoding, toast, name, pc, i, lastY,
                   amiPolarity, cmiPolarity, path, stroked>>

\* the clipboard write is fulfilled: the .then callback of line 554
CopyFulfilled ==
    /\ pc = "idle"
    /\ copyPending > 0
    /\ copyPending' = copyPending - 1
    /\ showToast("Binary copied to clipboard!")
    /\ UNCHANGED <<currentBinary, currentZoom, encoding, name, pc, i, lastY,
                   amiPolarity, cmiPolarity, path, stroked>>

\* the clipboard write is rejected (no permission, page not focused): the
\* promise has no rejection handler, nothing is shown
CopyRejected ==
    /\ pc = "idle"
    /\ copyPending > 0
    /\ copyPending' = copyPending - 1
    /\ UNCHANGED <<currentBinary, currentZoom, encoding, toast, name, pc, i, lastY,
                   amiPolarity, cmiPolarity, path, stroked>>

\* downloadBtn click
DownloadClick ==
    /\ pc = "idle"
    /\ IF currentBinary = <<>>
       THEN showToast("Generate a waveform first!")
       ELSE showToast("Image downloaded!")
    /\ UNCHANGED <<currentBinary, currentZoom, encoding, name, pc, i, lastY,
                   amiPolarity, cmiPolarity, path, stroked, copyPending>>

\* drawWaveform called on its own, on the arguments of the initial state
DrawCall ==
    /\ pc = "call"
    /\ drawWaveformBegin(currentZoom)
    /\ UNCHANGED <<currentBinary, currentZoom, encoding, toast, name, copyPending>>

----------------------------------------------------------------------------
(* The page: state after the script has loaded, and its handlers *)

Init ==
    /\ currentBinary = <<>>
    /\ currentZoom = 100
    /\ encoding = "nrz"
    /\ toast = ""
    /\ name = <<>>
    /\ pc = "idle"
    /\ i = 0
    /\ lastY = voltageZero(100)
    /\ amiPolarity = 1
    /\ cmiPolarity = -1
    /\ path = <<>>
    /\ stroked = <<>>
    /\ copyPending = 0

Next ==
    \/ \E value \in Texts : ConvertClick(value)
    \/ \E e \in Encodings : EncodingChange(e)
    \/ ZoomIn
    \/ ZoomOut
    \/ CopyClick
    \/ CopyFulfilled
    \/ CopyRejected
    \/ DownloadClick
    \/ ToastTimeout
    \/ DrawIter
    \/ DrawEnd

Spec == Init /\ [][Next]_vars

(* drawWaveform as a function of its arguments: any bit string, any of the *)
(* five encodings, any zoom factor the page can have.                       *)

InitGen ==
    /\ currentBinary \in GenInputs
    /\ currentZoom \in Zooms
    /\ encoding \in Encodings
    /\ toast = ""
    /\ name = <<>>
    /\ pc = "call"
    /\ i = 0
    /\ lastY = voltageZero(100)
    /\ amiPolarity = 1
    /\ cmiPolarity = -1
    /\ path = <<>>
    /\ stroked = <<>>
    /\ copyPending = 0

NextGen ==
    \/ DrawCall
    \/ DrawIter
    \/ DrawEnd

SpecGen == InitGen /\ [][NextGen]_vars

----------------------------------------------------------------------------
(* The waveform as the sequence of vertices the path stands for: position  *)
(* in half bit widths from the first bit's start (bit j, counted from 1,    *)
(* spans 2*(j-1) .. 2*j, its middle is 2*j-1), level, and whether the       *)
(* vertex starts a new subpath.                                            *)

Level(y, zoom) ==
    IF y = voltageHigh(zoom) THEN "HIGH"
    ELSE IF y = voltageZero(zoom) THEN "ZERO"
    ELSE IF y = voltageLow(zoom) THEN "LOW"
    ELSE "NONE"

Vertex(c, zoom) ==
    [pos |-> ((c.x - padding) * 2) \div bitWidth(zoom),
     level |-> Level(c.y, zoom),
     start |-> (c.op = "moveTo")]

WaveOf(p, zoom) == [k \in 1..Len(p) |-> Vertex(p[k], zoom)]

\* the signal path: the current path while drawWaveform builds it, the path
\* it stroked once it has returned
Signal == IF pc = "idle" THEN stroked ELSE path

Wave == WaveOf(Signal, currentZoom)

\* the edges between consecutive vertices
Edges(W) ==
    [k \in 1..(Len(W) - 1) |->
        [from |-> W[k].pos, to |-> W[k + 1].pos, a |-> W[k].level, b |-> W[k + 1].level]]

IsFlat(e) == e.from # e.to
IsStep(e) == e.from = e.to /\ e.a # e.b

\* the edges that advance in time, in order
Flats(W) == SelectSeq(Edges(W), IsFlat)
\* the vertical edges that change the level
Steps(W) == {Edges(W)[k] : k \in {n \in 1..(Len(W) - 1) : IsStep(Edges(W)[n])}}

Flat(from, to, level) == [from |-> from, to |-> to, a |-> level, b |-> level]
Step(at, a, b) == [from |-> at, to |-> at, a |-> a, b |-> b]

WellFormed(bits) == \A k \in 1..Len(bits) : bits[k] \in {"0", "1"}

\* number of 1-bits among the first n bits
Ones(bits, n) == Cardinality({k \in 1..n : bits[k] = "1"})

\* drawWaveform has been entered and has drawn at least the first bit
Drawn == pc \in {"loop", "idle"} /\ i >= 1

----------------------------------------------------------------------------
(* C1 *)

AMILevel(bits, j) ==
    IF bits[j] = "0" THEN "ZERO"
    ELSE IF Ones(bits, j) % 2 = 1 THEN "HIGH" ELSE "LOW"

AMIExample == <<"0", "1", "0", "1", "1", "0", "1">>

\* C1: AMI, initial polarity +1: after any number of bits of any bit
\* sequence, every bit drawn so far is one flat segment over its whole
\* width, at ZERO for a 0-bit and, for the k-th 1-bit, at HIGH when k is odd
\* and at LOW when k is even; the polarity is flipped by 1-bits only; the
\* bits 0101101 give ZERO HIGH ZERO LOW HIGH ZERO LOW.
C1_AMIAlternates ==
    (encoding = "ami" /\ pc # "call" /\ WellFormed(currentBinary)) =>
        /\ Flats(Wave) = [j \in 1..i |-> Flat(2 * (j - 1), 2 * j, AMILevel(currentBinary, j))]
        /\ amiPolarity = IF Ones(currentBinary, i) % 2 = 0 THEN 1 ELSE -1
        /\ (currentBinary = AMIExample /\ pc = "idle") =>
              [j \in 1..Len(Flats(Wave)) |-> Flats(Wave)[j].b]
                  = <<"ZERO", "HIGH", "ZERO", "LOW", "HIGH", "ZERO", "LOW">>

C1_Witness ==
    /\ encoding = "ami" /\ pc = "idle" /\ currentBinary = AMIExample
    /\ Len(Flats(Wave)) = 7
    /\ amiPolarity = 1

----------------------------------------------------------------------------
(* C2 *)

RECURSIVE CMIFlats(_, _)
CMIFlats(bits, n) ==
    IF n = 0 THEN <<>>
    ELSE CMIFlats(bits, n - 1) \o
         (IF bits[n] = "1"
          THEN <<Flat(2 * n - 2, 2 * n, IF Ones(bits, n) % 2 = 1 THEN "ZERO" ELSE "HIGH")>>
          ELSE <<Flat(2 * n - 2, 2 * n - 1, "ZERO"), Flat(2 * n - 1, 2 * n, "HIGH")>>)

CMIExample == <<"1", "1", "0", "1">>

\* C2: CMI, initial polarity -1: the k-th 1-bit is flat over its whole width
\* on the ZERO rail when k is odd and at HIGH when k is even; every 0-bit is
\* ZERO on its first half, steps up at its middle, is HIGH on its second
\* half and ends at HIGH; only 1-bits flip the polarity; no vertex is at
\* LOW; the bits 1101 give ZERO, HIGH, ZERO then HIGH, ZERO.
C2_CMIRails ==
    (encoding = "cmi" /\ pc # "call" /\ WellFormed(currentBinary)) =>
        /\ Flats(Wave) = CMIFlats(currentBinary, i)
        /\ cmiPolarity = IF Ones(currentBinary, i) % 2 = 0 THEN -1 ELSE 1
        /\ \A k \in 1..Len(Wave) : Wave[k].level \in {"ZERO", "HIGH"}
        /\ \A j \in 1..i : currentBinary[j] = "0" =>
              {e \in Steps(Wave) : e.from = 2 * j - 1} = {Step(2 * j - 1, "ZERO", "HIGH")}
        /\ (i >= 1 /\ currentBinary[i] = "0") =>
              /\ lastY = voltageHigh(currentZoom)
              /\ Wave[Len(Wave)] = [pos |-> 2 * i, level |-> "HIGH", start |-> FALSE]
        /\ (currentBinary = CMIExample /\ pc = "idle") =>
              Flats(Wave) = <<Flat(0, 2, "ZERO"), Flat(2, 4, "HIGH"), Flat(4, 5, "ZERO"),
                              Flat(5, 6, "HIGH"), Flat(6, 8, "ZERO")>>

C2_Witness ==
    /\ encoding = "cmi" /\ pc = "idle" /\ currentBinary = CMIExample
    /\ Len(Signal) > 0
    /\ cmiPolarity = 1

----------------------------------------------------------------------------
(* C3 *)

\* C3: Manchester: every bit drawn so far has, at its middle, exactly one
\* vertical step, from LOW to HIGH for a 1-bit and from HIGH to LOW for a
\* 0-bit, whatever the bits around it; no vertex is at ZERO.
C3_ManchesterMidBit ==
    (encoding = "manchester" /\ pc # "call" /\ WellFormed(currentBinary)) =>
        /\ \A j \in 1..i :
              {e \in Steps(Wave) : e.from = 2 * j - 1}
                = {IF currentBinary[j] = "1" THEN Step(2 * j - 1, "LOW", "HIGH")
                                              ELSE Step(2 * j - 1, "HIGH", "LOW")}
        /\ \A k \in 1..Len(Wave) : Wave[k].level \in {"LOW", "HIGH"}

C3_Witness ==
    /\ encoding = "manchester" /\ pc = "idle"
    /\ currentBinary = <<"1", "1", "0", "0", "1">>
    /\ Cardinality(Steps(Wave)) = 7

----------------------------------------------------------------------------
(* C4 *)

RECURSIVE RZFlats(_, _)
RZFlats(bits, n) ==
    IF n = 0 THEN <<>>
    ELSE RZFlats(bits, n - 1) \o
         <<Flat(2 * n - 2, 2 * n - 1, IF bits[n] = "1" THEN "HIGH" ELSE "LOW"),
           Flat(2 * n - 1, 2 * n, "ZERO")>>

\* C4: RZ: every bit drawn so far is HIGH (1-bit) or LOW (0-bit) on its
\* first half and ZERO on its second half; once a bit is drawn the path
\* ends at the end of that bit at ZERO, and the lastY carried into the next
\* bit is the ZERO rail, whatever the bit and the level before it.
C4_RZReturnsToZero ==
    (encoding = "rz" /\ pc # "call" /\ WellFormed(currentBinary)) =>
        /\ Flats(Wave) = RZFlats(currentBinary, i)
        /\ i >= 1 =>
              /\ lastY = voltageZero(currentZoom)
              /\ Wave[Len(Wave)] = [pos |-> 2 * i, level |-> "ZERO", start |-> FALSE]

C4_Witness ==
    /\ encoding = "rz" /\ pc = "idle"
    /\ currentBinary = <<"1", "0", "0", "1">>
    /\ Len(Flats(Wave)) = 8

----------------------------------------------------------------------------
(* C5 *)

NameA == <<65>>

NRZLevel(bit) == IF bit = "1" THEN "HIGH" ELSE "ZERO"

\* The statement of C5 as it stands: the text "A" drawn as NRZ-L is 8
\* vertices, one per bit, at ZERO HIGH ZERO ZERO ZERO ZERO ZERO HIGH, the
\* first one alone starting a subpath.
C5_EightVertices ==
    (encoding = "nrz" /\ pc = "idle" /\ currentBinary = stringToBinary(NameA)) =>
        /\ Len(Wave) = 8
        /\ [k \in 1..Len(Wave) |-> Wave[k].level]
              = <<"ZERO", "HIGH", "ZERO", "ZERO", "ZERO", "ZERO", "ZERO", "HIGH">>
        /\ {k \in 1..Len(Wave) : Wave[k].start} = {1}

\* C5: NRZ-L: every bit drawn so far is one flat segment over its whole
\* width, at HIGH for a 1-bit and at ZERO for a 0-bit; the text "A" is the
\* bits 01000001 and is drawn as 15 vertices that make 8 flat segments at
\* ZERO HIGH ZERO ZERO ZERO ZERO ZERO HIGH, the first vertex alone starting
\* a subpath.
C5_NRZLevels ==
    (encoding = "nrz" /\ WellFormed(currentBinary)) =>
        /\ Flats(Wave) = [j \in 1..i |-> Flat(2 * (j - 1), 2 * j, NRZLevel(currentBinary[j]))]
        /\ (pc = "idle" /\ currentBinary = stringToBinary(NameA)) =>
              /\ currentBinary = <<"0", "1", "0", "0", "0", "0", "0", "1">>
              /\ Len(Wave) = 15
              /\ [j \in 1..Len(Flats(Wave)) |-> Flats(Wave)[j].b]
                    = <<"ZERO", "HIGH", "ZERO", "ZERO", "ZERO", "ZERO", "ZERO", "HIGH">>
              /\ {k \in 1..Len(Wave) : Wave[k].start} = {1}

C5_Witness ==
    /\ encoding = "nrz" /\ pc = "idle" /\ name = NameA
    /\ currentBinary = stringToBinary(NameA)
    /\ Len(Signal) = 15

----------------------------------------------------------------------------
(* C6 *)

IsAscii(text) == \A k \in 1..Len(text) : text[k] \in 0..127

\* value of a group of bits, most significant bit first
RECURSIVE BitsValue(_)
BitsValue(bits) ==
    IF bits = <<>> THEN 0
    ELSE 2 * BitsValue(SubSeq(bits, 1, Len(bits) - 1))
         + (IF bits[Len(bits)] = "1" THEN 1 ELSE 0)

\* the code points of a bit string read in groups of 8 bits
Decode8(bits) ==
    [j \in 1..(Len(bits) \div 8) |-> BitsValue(SubSeq(bits, 8 * j - 7, 8 * j))]

\* C6: after a conversion of a non-empty ASCII name, currentBinary has
\* exactly 8 bits per character, the 8 bits of character j are its code
\* point most significant bit first, and reading currentBinary in groups of
\* 8 bits gives back the code points of the name in order.
C6_TextToBitsRoundTrip ==
    (name # <<>> /\ IsAscii(name)) =>
        /\ Len(currentBinary) = 8 * Len(name)
        /\ \A j \in 1..Len(name) :
              /\ BitsValue(SubSeq(currentBinary, 8 * j - 7, 8 * j)) = name[j]
              /\ SubSeq(currentBinary, 8 * j - 7, 8 * j) = charToBinary(name[j])
        /\ Decode8(currentBinary) = name

C6_Witness ==
    /\ name = <<67, 65>>
    /\ Len(currentBinary) = 16
    /\ Decode8(currentBinary) = <<67, 65>>

----------------------------------------------------------------------------
(* C7 *)

IllFormed(bits) == bits = <<>> \/ ~WellFormed(bits)

\* C7: drawWaveform given an empty bit string, or one holding a character
\* other than '0' and '1', fails: it never returns normally and it leaves
\* no vertex on the path.
C7_InvalidInputFails ==
    IllFormed(currentBinary) => (pc # "idle" /\ Signal = <<>>)

----------------------------------------------------------------------------
(* C8 *)

\* drawWaveform run from its entry to its return on the given arguments
RECURSIVE runLoop(_, _, _, _)
runLoop(l, binary, enc, zoom) ==
    IF l.i >= Len(binary) THEN l
    ELSE runLoop(loopBody(l, binary, enc, zoom), binary, enc, zoom)

\* the waveform of a first generation, on a fresh page at zoom 1
Generate(binary, enc) == WaveOf(runLoop(freshLocals(100), binary, enc, 100).path, 100)

\* C8: whatever generations, conversions and zoom changes came before, the
\* waveform left by a generation is the one a first generation at zoom 1
\* gives for the same bit string and encoding: same vertices, positions (in
\* bit widths), levels and subpath starts.
C8_Deterministic ==
    (pc = "idle" /\ currentBinary # <<>>) => Wave = Generate(currentBinary, encoding)

C8_Witness ==
    /\ pc = "idle" /\ encoding = "ami" /\ currentZoom = 175
    /\ currentBinary = stringToBinary(<<67, 65>>)
    /\ amiPolarity = -1
    /\ Len(Signal) > Len(currentBinary)

----------------------------------------------------------------------------
(* C9 *)

InitialLevel(enc, bit) ==
    CASE enc = "nrz" -> IF bit = "1" THEN "HIGH" ELSE "ZERO"
      [] enc = "rz" -> IF bit = "1" THEN "HIGH" ELSE "LOW"
      [] enc = "manchester" -> IF bit = "1" THEN "LOW" ELSE "HIGH"
      [] enc = "ami" -> IF bit = "1" THEN "HIGH" ELSE "ZERO"
      [] enc = "cmi" -> "ZERO"

\* C9: once the first bit is drawn, the first vertex of the path starts a
\* subpath, at the start of bit 0 and at that bit's initial level, and no
\* other vertex does: everything drawn for the later bits, steps at bit
\* boundaries included, continues the same subpath.
C9_OneSubpath ==
    Drawn =>
        /\ Wave[1].start
        /\ Wave[1].pos = 0
        /\ \A k \in 2..Len(Wave) : ~Wave[k].start
        /\ WellFormed(currentBinary) => Wave[1].level = InitialLevel(encoding, currentBinary[1])

C9_Witness ==
    /\ encoding = "nrz" /\ pc = "idle" /\ currentBinary = <<"0", "1", "0">>
    /\ Len(Signal) = 8
    /\ Cardinality(Steps(Wave)) = 2

----------------------------------------------------------------------------
(* C10 *)

\* a step of the loop that draws bit i adds between 1 and most vertices,
\* all of them within the bit; the positions of the path never decrease and
\* do not pass the end of the last bit
BitStep(most) ==
    (pc = "loop" /\ i' = i + 1) =>
        LET W == WaveOf(path', currentZoom)
        IN /\ Len(path') - Len(path) \in 1..most
           /\ SubSeq(path', 1, Len(path)) = path
           /\ \A k \in (Len(path) + 1)..Len(path') :
                 /\ W[k].pos \in (2 * i)..(2 * i + 2)
                 /\ path'[k].x \in (padding + i * bitWidth(currentZoom))
                                    ..(padding + (i + 1) * bitWidth(currentZoom))
           /\ \A k \in 2..Len(W) : W[k - 1].pos <= W[k].pos
           /\ W[Len(W)].pos <= 2 * Len(currentBinary)

\* The statement of C10 as it stands: each bit adds between 1 and 4
\* vertices, within the bit.
C10_AtMostFour == [][BitStep(4)]_vars

\* C10: each bit adds between 1 and 5 vertices, every one of them at a
\* position within the bit, so that positions never decrease along the path
\* and the last one is at most the number of bits.
C10_AtMostFive == [][BitStep(5)]_vars

C10_Witness ==
    /\ encoding = "rz" /\ pc = "idle" /\ currentBinary = <<"1", "0">>
    /\ Len(Signal) = 9

----------------------------------------------------------------------------
(* C11 *)

\* C11: once a bit is drawn, and so at the start of every later bit, the
\* lastY held by the loop is the height of the last vertex of the path,
\* which lies at the end of the bit just drawn; and every edge drawn joins
\* two vertices on the same vertical (a step) or at the same height (a flat
\* segment), in pixels and in bit widths and levels alike: no edge is
\* diagonal.
C11_LevelContinuity ==
    Drawn =>
        /\ lastY = Signal[Len(Signal)].y
        /\ Signal[Len(Signal)].x = padding + i * bitWidth(currentZoom)
        /\ Level(lastY, currentZoom) = Wave[Len(Wave)].level
        /\ Wave[Len(Wave)].pos = 2 * i
        /\ \A k \in 1..(Len(Signal) - 1) :
              Signal[k + 1].op = "lineTo" =>
                 /\ Signal[k].x = Signal[k + 1].x \/ Signal[k].y = Signal[k + 1].y
                 /\ Wave[k].pos = Wave[k + 1].pos \/ Wave[k].level = Wave[k + 1].level

\* three Manchester bits are drawn and a fourth is about to be: the loop
\* holds the LOW rail, and the path has both steps and flat segments
C11_Witness ==
    /\ encoding = "manchester" /\ pc = "loop" /\ i = 3
    /\ currentBinary = <<"1", "1", "0", "1">>
    /\ lastY = voltageLow(currentZoom)
    /\ Cardinality(Steps(Wave)) = 4
    /\ Len(Flats(Wave)) = 6

====
